---- MODULE Spec2Model ----
(***************************************************************************)
(* The dependency-tracking engine of impact-react (src/impact-react/src/   *)
(* signal.ts): signals, SignalTracker fan-out, ObserverContext scopes,     *)
(* derived values, effects and the component observer.                     *)
(* The setter and listeners of the older engine (src/src/Signal.ts) are    *)
(* modelled next to it.                                                    *)
(*                                                                         *)
(* JavaScript runs one synchronous call chain at a time.  The chain is the *)
(* variable cs, a stack of activations: the host's call at the bottom,     *)
(* above it the bodies of effects and deriveds that are executing and the  *)
(* notification passes (SignalTracker.notify) that are iterating.  Every   *)
(* step executes the next statement of the topmost activation.             *)
(***************************************************************************)
EXTENDS Integers, Sequences, FiniteSets, TLC

Sigs == {"A", "B"}
Deriveds == {"D1", "D2"}
Effects == {"E1", "E2"}
Comp == "C"
\* the onChange listeners of the older engine's signals
Listener == "L"
Host == "host"
Trackers == Sigs \cup Deriveds
Owners == Deriveds \cup Effects

\* Signal values are the numbers 0 .. NVal-1; 0 is the falsy one.
NVal == 2
Val == 0 .. (NVal - 1)
\* `let value: T` of a derived before its first computation
Undefined == -1
\* ObserverContext objects are named <<owner, slot>>; a slot is reused once
\* nothing references the object any more (garbage collection).
MaxSlot == 5
\* Saturation of the per-call counters of callback invocations.
RunCap == 5
\* Saturation of the count of notifications a derived got since its last read.
NoteCap == 2

\* createPromise calls (installations of an async operation) in a run
MaxInst == 2
\* onChange listeners a signal of the older engine can have
MaxListen == 2

None == <<"none", 0>>

Range(s) == {s[i] : i \in DOMAIN s}
Sat(n, cap) == IF n < cap THEN n + 1 ELSE cap

VARIABLES
  value,       \* tracker -> stored value (signal: `value`, derived: cached `value`)
  contexts,    \* tracker -> SignalTracker.contexts, a Set in insertion order
  stack,       \* ObserverContext.stack
  ctx,         \* live ObserverContext objects: id -> [getters, setters, dead]
  isDirty,     \* derived -> isDirty
  disposer,    \* derived -> `disposer` (the context its closure unsubscribes)
  currentSubscriptionDisposer, \* effect -> its closure's context
  cleanupFn,   \* effect -> the closure effect() handed to cleanup()
  ended,       \* effects whose owning scope has ended (cleanup hook invoked)
  component,   \* the context returned by observer(), held by the host
  hooks,       \* signalDebugHooks.onSetValue is installed
  listeners,   \* signal -> size of its `listeners` Set (older engine: onChange)
  activeStoreContainer, \* what getActiveStoreContainer() returns (truthy or not)
  cb,          \* owner -> the callback given to derived(cb) / effect(cb)
  currentAbortController, \* signal -> the installation its latest createPromise made
  promises,    \* installation -> the promise written, its settlement, aborted or not,
               \* and history: its state when written, the notify() calls of
               \* its pending check (pend) and of its handlers (sett), whether
               \* a plain value was stored when it settled (over)
  microtasks,  \* the microtask queue
  cs,          \* the synchronous call chain
  call,        \* the host call in progress: its statement, the state it started in, counters
  notes        \* derived -> notifications since it was last read (saturating)

asyncVars == <<currentAbortController, promises, microtasks>>

codeVars == <<value, contexts, stack, ctx, isDirty, disposer,
              currentSubscriptionDisposer, cleanupFn, ended, component, hooks, listeners, asyncVars,
              activeStoreContainer, cb>>
vars == <<value, contexts, stack, ctx, isDirty, disposer,
          currentSubscriptionDisposer, cleanupFn, ended, component, hooks, listeners, asyncVars,
          activeStoreContainer, cb, cs, call, notes>>

-----------------------------------------------------------------------------
(* Statements of callbacks and of the host *)

Ins(op, t, v) == [op |-> op, t |-> t, v |-> v]
\* get: read t.value into the accumulator; getIf: the same when the
\* accumulator is truthy; set: t.value = v; inc: t.value = accumulator + 1;
\* setp: t.value = a promise (v: pending, fulfilled or rejected already);
\* effect: effect(cb[t]); cleanup: the cleanup hook of effect t is invoked;
\* then, catch, pass, check: the microtasks of installation v on signal t;
\* throwIf: `if (acc) throw new Error()`;
\* use: use(t.value);
\* older engine: oget: read t.value; assign: t.value = v; produce:
\* t.value = the producer function Producers[v]
GetI(t) == Ins("get", t, 0)
GetIfI(t) == Ins("getIf", t, 0)
SetI(t, v) == Ins("set", t, v)
IncI(t) == Ins("inc", t, 0)
ThrowIfI == Ins("throwIf", "", 0)

HostCalls ==
  {GetI(t) : t \in Trackers}
    \cup {SetI(s, v) : s \in Sigs, v \in Val}
    \cup {Ins("effect", e, 0) : e \in Effects}
    \cup {Ins("cleanup", "E1", 0)}

-----------------------------------------------------------------------------
(* Activations *)

\* k: host | body | pass.  body: o the owner, c its context, pc, acc, why
\* (create | notify | read).  pass: t the tracker, snap the array notify()
\* iterates, i the index of forEach.  History kept for the properties: rd
\* the trackers the code read, rw those it read and then changed, at0 the
\* dependent set when the pass started, seen the contexts it notified.
Frame0 == [k |-> "host", o |-> Host, c |-> None, pc |-> 1, acc |-> 0,
           why |-> "", rd |-> {}, rw |-> {}, t |-> "", snap |-> <<>>, i |-> 1,
           at0 |-> <<>>, seen |-> <<>>]
BodyFrame(o, c, why) == [Frame0 EXCEPT !.k = "body", !.o = o, !.c = c, !.why = why]

Idle == cs = <<>>
Top == cs[Len(cs)]
Below == SubSeq(cs, 1, Len(cs) - 1)
\* the chain with the top activation replaced
WithTop(f) == Append(Below, f)

Program(f) == IF f.k = "host" THEN <<call.ins>> ELSE cb[f.o]
AtEnd(f) == f.pc > Len(Program(f))
Instr(f) == Program(f)[f.pc]
Running == ~Idle /\ Top.k \in {"host", "body"} /\ ~AtEnd(Top)

NoCall == [ins |-> Ins("", "", 0), pre |-> <<>>, runs |-> <<>>, upd |-> <<>>,
           fresh |-> {}]

-----------------------------------------------------------------------------
(* ObserverContext *)

Cur == stack[Len(stack)]

NewContext == [getters |-> {}, setters |-> {}, dead |-> FALSE]

registerGetter(cx, c, t) ==
  IF t \in cx[c].setters THEN cx ELSE [cx EXCEPT ![c].getters = @ \cup {t}]

\* faulty variant: the tracker is added to the write set and left in the read set
registerSetterKeep(cx, c, t) == [cx EXCEPT ![c].setters = @ \cup {t}]

registerSetter(cx, c, t) ==
  [cx EXCEPT ![c].getters = @ \ {t}, ![c].setters = @ \cup {t}]

isResolvingContextFromComponent(c) == c[1] = Comp /\ activeStoreContainer

\* faulty variant: every context on top of the stack tracks
TrackedAlways == stack # <<>>

\* the test `ObserverContext.current && !isResolvingContextFromComponent(...)`
Tracked == stack # <<>> /\ ~isResolvingContextFromComponent(Cur)

\* get value(): register the tracker with the active context
Read(cx, t) == IF Tracked THEN registerGetter(cx, Cur, t) ELSE cx

(* SignalTracker *)
addContext(seq, c) == IF c \in Range(seq) THEN seq ELSE Append(seq, c)
removeContext(seq, c) == SelectSeq(seq, LAMBDA x : x # c)

\* faulty variant: dispose subscribes the context to nothing
subscribeNothing(cts, cx, c) == cts

subscribe(cts, cx, c) ==
  [t \in Trackers |-> IF t \in cx[c].getters THEN addContext(cts[t], c) ELSE cts[t]]

\* faulty variant: the closure removes the context from no tracker
unsubscribeNothing(cts, cx, c) == cts

\* faulty variant: the closure removes the context from one tracker only
unsubscribeOne(cts, cx, c) ==
  IF c = None \/ cx[c].getters = {} THEN cts
  ELSE LET u == CHOOSE t \in cx[c].getters : TRUE
       IN [cts EXCEPT ![u] = removeContext(@, c)]

\* the closure subscribe() returns
unsubscribe(cts, cx, c) ==
  IF c = None THEN cts
  ELSE [t \in Trackers |->
          IF t \in cx[c].getters THEN removeContext(cts[t], c) ELSE cts[t]]

Dead(cx, c) == IF c = None THEN cx ELSE [cx EXCEPT ![c].dead = TRUE]

\* faulty variant: forEach over the live Set instead of the array
PassListLive(f) == contexts[f.t]

\* what forEach iterates: the array `Array.from(this.contexts)` made when
\* notify() was entered
PassList(f) == f.snap

PassFrame(t) ==
  [Frame0 EXCEPT !.k = "pass", !.t = t, !.snap = contexts[t], !.at0 = contexts[t]]

\* the trackers with a notify() in progress
ActivePasses == {cs[i].t : i \in {j \in DOMAIN cs : cs[j].k = "pass"}}
\* (tracker, context) pairs that subscribing c adds while that tracker's
\* notify() is in progress
Added(c) ==
  {<<t, c>> : t \in {u \in ctx[c].getters \cap ActivePasses : c \notin Range(contexts[u])}}

(* Object identity: what is still referenced *)
FrameRefs(f) == {f.c} \cup Range(f.snap) \cup Range(f.seen)

Refs(st, cts, dsp, csd, cln, cmp, chain) ==
  Range(st) \cup UNION {Range(cts[t]) : t \in Trackers}
    \cup Range(dsp) \cup Range(csd) \cup Range(cln) \cup {cmp}
    \cup UNION {FrameRefs(chain[i]) : i \in DOMAIN chain}

Collect(cx, refs) == [c \in (DOMAIN cx) \cap refs |-> cx[c]]

FreeSlots(o, cx) == {k \in 1 .. MaxSlot : <<o, k>> \notin DOMAIN cx}
NewId(o, cx) == <<o, CHOOSE k \in FreeSlots(o, cx) : \A j \in FreeSlots(o, cx) : k <= j>>
\* new ObserverContext(...): the object exists and is pushed
Construct(cx, c) == [x \in (DOMAIN cx) \cup {c} |-> IF x = c THEN NewContext ELSE cx[x]]

\* the objects still referenced after the step
Kept(cx) ==
  Collect(cx, Refs(stack', contexts', disposer', currentSubscriptionDisposer',
                   cleanupFn', component', cs'))

Bump(f, o) == [f EXCEPT ![o] = Sat(@, RunCap)]

-----------------------------------------------------------------------------
(* Initial state *)

CbMain ==
  [o \in Owners |->
     CASE o = "D1" -> <<GetI("B"), GetIfI("A")>>
       [] o = "D2" -> <<GetI("D1")>>
       [] o = "E1" -> <<GetI("B"), GetIfI("A")>>
       [] o = "E2" -> <<GetI("A"), GetI("D2")>>]

InitCode ==
  /\ value = [t \in Trackers |-> IF t \in Sigs THEN 0 ELSE Undefined]
  /\ contexts = [t \in Trackers |-> <<>>]
  /\ stack = <<>>
  /\ ctx = <<>>
  /\ isDirty = [d \in Deriveds |-> TRUE]
  /\ disposer = [d \in Deriveds |-> None]
  /\ currentSubscriptionDisposer = [e \in Effects |-> None]
  /\ cleanupFn = [e \in Effects |-> None]
  /\ ended = {}
  /\ component = None
  /\ activeStoreContainer = FALSE
  /\ listeners = [s \in Sigs |-> 0]
  /\ currentAbortController = [s \in Sigs |-> 0]
  /\ promises = <<>>
  /\ microtasks = <<>>
  /\ cs = <<>>
  /\ call = NoCall
  /\ notes = [d \in Deriveds |-> 0]

Init ==
  /\ InitCode
  /\ hooks = FALSE
  /\ cb = CbMain

-----------------------------------------------------------------------------
(* The host calls into the engine *)

Pre ==
  [value |-> value, contexts |-> contexts, ctx |-> ctx, isDirty |-> isDirty,
   stack |-> stack, notes |-> notes,
   currentSubscriptionDisposer |-> currentSubscriptionDisposer]

\* a job enters the engine with one statement to execute
Enter(ins) ==
  /\ cs' = <<Frame0>>
  /\ call' = [ins |-> ins, pre |-> Pre,
              runs |-> [o \in Owners |-> 0],
              upd |-> [o \in Owners \cup {Comp, Listener} |-> 0],
              fresh |-> {}]

Call(ins) ==
  /\ Idle
  /\ ins.op = "effect" => currentSubscriptionDisposer[ins.t] = None /\ cb[ins.t] # <<>>
  /\ ins.op = "cleanup" => cleanupFn[ins.t] # None /\ ins.t \notin ended
  /\ ins.op = "setp" => Len(promises) < MaxInst
  /\ ins.t \in Deriveds => cb[ins.t] # <<>>
  /\ Enter(ins)
  /\ UNCHANGED <<codeVars, notes>>

HostReturn ==
  /\ ~Idle /\ Top.k = "host" /\ AtEnd(Top)
  /\ cs' = <<>>
  /\ call' = NoCall
  /\ UNCHANGED <<codeVars, notes>>

-----------------------------------------------------------------------------
(* signal: get value / set value *)

IsGet(f) == Instr(f).op = "get" \/ (Instr(f).op = "getIf" /\ f.acc # 0)

\* signal.value read by the running code
GetSignal ==
  /\ Running /\ IsGet(Top) /\ Instr(Top).t \in Sigs
  /\ LET f == Top
         t == Instr(f).t
     IN /\ cs' = WithTop([f EXCEPT !.pc = @ + 1, !.acc = value[t], !.rd = @ \cup {t}])
        /\ UNCHANGED <<value, contexts, stack, isDirty, disposer,
                       currentSubscriptionDisposer, cleanupFn, ended, component, hooks, listeners, asyncVars,
                       activeStoreContainer, cb, call, notes>>
        /\ ctx' = Kept(Read(ctx, t))

\* `if (acc) t.value`: the branch is not taken
GetSkip ==
  /\ Running /\ Instr(Top).op = "getIf" /\ Top.acc = 0
  /\ cs' = WithTop([Top EXCEPT !.pc = @ + 1])
  /\ UNCHANGED <<codeVars, call, notes>>

NewValue(f) ==
  IF Instr(f).op = "inc" THEN (f.acc + 1) % NVal ELSE Instr(f).v

IsSet(f) == Instr(f).op \in {"set", "inc"}

\* faulty variant: no equality short-circuit
SameValueNever(old, new) == FALSE

\* the test `value === newValue`
SameValue(old, new) == old = new

\* set value(newValue) with value === newValue
SetSame ==
  /\ Running /\ IsSet(Top) /\ SameValue(value[Instr(Top).t], NewValue(Top))
  /\ cs' = WithTop([Top EXCEPT !.pc = @ + 1])
  /\ UNCHANGED <<codeVars, call, notes>>

\* the contexts object after `value = newValue` and the debug-hook block
AfterSetHooks(cx, t) ==
  IF hooks /\ stack # <<>> THEN registerSetter(cx, Cur, t) ELSE cx

\* set value(newValue) with a different value: store, then signal.notify()
SetValue ==
  /\ Running /\ IsSet(Top) /\ ~SameValue(value[Instr(Top).t], NewValue(Top))
  /\ LET f == Top
         t == Instr(f).t
     IN /\ value' = [value EXCEPT ![t] = NewValue(f)]
        /\ cs' = Append(WithTop([f EXCEPT !.pc = @ + 1,
                                          !.rw = @ \cup ({t} \cap f.rd)]),
                        PassFrame(t))
        /\ UNCHANGED <<contexts, stack, isDirty, disposer,
                       currentSubscriptionDisposer, cleanupFn, ended, component, hooks, listeners, asyncVars,
                       activeStoreContainer, cb, call, notes>>
        /\ ctx' = Kept(AfterSetHooks(ctx, t))

-----------------------------------------------------------------------------
(* signal: promises as values *)

PromiseStates == <<"pending", "fulfilled", "rejected">>

\* The objects createPendingPromise, createFulfilledPromise and
\* createRejectedPromise return for installation g, named by numbers above
\* every plain value.
PromiseObject(g, st) == NVal + 3 * (g - 1) + st
PendingPromise(g) == PromiseObject(g, 0)
FulfilledPromise(g) == PromiseObject(g, 1)
RejectedPromise(g) == PromiseObject(g, 2)
\* `value instanceof Promise`, `value.status`, and the installation that made it
IsPromise(v) == v >= NVal
StatusOf(v) == PromiseStates[((v - NVal) % 3) + 1]
InstOf(v) == ((v - NVal) \div 3) + 1

\* currentAbortController?.abort()
Abort(ps, g) == IF g = 0 THEN ps ELSE [ps EXCEPT ![g].aborted = TRUE]

\* faulty variant: the handlers do not look at the abort signal
AbortedNever(g) == FALSE

\* the test `abortController.signal.aborted` of installation g's handlers
Aborted(g) == promises[g].aborted

\* the jobs a settled promise queues for promise.then(...).catch(...): the
\* then handler when fulfilled; when rejected the then reaction only passes
\* the rejection on to the promise catch() is attached to
Reaction(s, g, st) ==
  CASE st = "fulfilled" -> <<Ins("then", s, g)>>
    [] st = "rejected" -> <<Ins("pass", s, g)>>
    [] OTHER -> <<>>

\* set value(newValue) with a promise: createPromise(newValue), store the
\* pending wrapper, queue the microtask that notifies if still pending.
\* The promise written is pending, or settled already (Instr.v).
SetPromise ==
  /\ Running /\ Instr(Top).op = "setp"
  /\ LET f == Top
         s == Instr(f).t
         st == PromiseStates[Instr(f).v]
         g == Len(promises) + 1
     IN \E r \in (IF st = "pending" THEN {0} ELSE Val) :
          /\ promises' = Append(Abort(promises, currentAbortController[s]),
                                [t |-> s, state |-> st, r |-> r, aborted |-> FALSE,
                                 first |-> st, pend |-> 0, sett |-> 0,
                                 over |-> FALSE])
          /\ currentAbortController' = [currentAbortController EXCEPT ![s] = g]
          /\ value' = [value EXCEPT ![s] = PendingPromise(g)]
          /\ microtasks' = microtasks \o Reaction(s, g, st) \o <<Ins("check", s, g)>>
          /\ cs' = WithTop([f EXCEPT !.pc = @ + 1])
          /\ UNCHANGED <<contexts, stack, isDirty, disposer,
                         currentSubscriptionDisposer, cleanupFn, ended, component,
                         hooks, listeners, activeStoreContainer, cb, call, notes>>
          /\ ctx' = Kept(AfterSetHooks(ctx, s))

\* the promise written at installation g settles
Settle ==
  /\ Idle
  /\ \E g \in DOMAIN promises, st \in {"fulfilled", "rejected"}, r \in Val :
       /\ promises[g].state = "pending"
       /\ promises' = [promises EXCEPT ![g].state = st, ![g].r = r,
                                       ![g].over = ~IsPromise(value[promises[g].t])]
       /\ microtasks' = microtasks \o Reaction(promises[g].t, g, st)
  /\ UNCHANGED <<value, contexts, stack, ctx, isDirty, disposer,
                 currentSubscriptionDisposer, cleanupFn, ended, component, hooks, listeners,
                 currentAbortController, activeStoreContainer, cb, cs, call, notes>>

\* the call chain is empty: the next microtask runs
Microtask ==
  /\ Idle /\ microtasks # <<>>
  /\ Enter(Head(microtasks))
  /\ microtasks' = Tail(microtasks)
  /\ UNCHANGED <<value, contexts, stack, ctx, isDirty, disposer,
                 currentSubscriptionDisposer, cleanupFn, ended, component, hooks, listeners,
                 currentAbortController, promises, activeStoreContainer, cb, notes>>

\* a handler that stores wrapper w unless aborted, then signal.notify()
Settled(w) ==
  LET f == Top
      s == Instr(f).t
      g == Instr(f).v
  IN /\ IF Aborted(g)
          THEN /\ cs' = WithTop([f EXCEPT !.pc = @ + 1])
               /\ value' = value
               /\ promises' = promises
          ELSE /\ cs' = Append(WithTop([f EXCEPT !.pc = @ + 1]), PassFrame(s))
               /\ value' = [value EXCEPT ![s] = w]
               /\ promises' = [promises EXCEPT ![g].sett = @ + 1]
     /\ UNCHANGED <<contexts, stack, isDirty, disposer,
                    currentSubscriptionDisposer, cleanupFn, ended, component,
                    hooks, listeners, currentAbortController, microtasks,
                    activeStoreContainer, cb, call, notes>>
     /\ ctx' = Kept(ctx)

\* .then(function (resolvedValue) {...})
ThenHandler ==
  /\ Running /\ Instr(Top).op = "then"
  /\ Settled(FulfilledPromise(Instr(Top).v))

\* .catch((rejectedReason) => {...})
CatchHandler ==
  /\ Running /\ Instr(Top).op = "catch"
  /\ Settled(RejectedPromise(Instr(Top).v))

\* the then reaction of a rejected promise: the rejection reaches catch()
\* one microtask later
PassThrough ==
  /\ Running /\ Instr(Top).op = "pass"
  /\ microtasks' = Append(microtasks, Ins("catch", Instr(Top).t, Instr(Top).v))
  /\ cs' = WithTop([Top EXCEPT !.pc = @ + 1])
  /\ UNCHANGED <<value, contexts, stack, ctx, isDirty, disposer,
                 currentSubscriptionDisposer, cleanupFn, ended, component, hooks, listeners,
                 currentAbortController, promises, activeStoreContainer, cb, call,
                 notes>>

\* faulty variant: the microtask notifies whatever is stored
StillPendingAlways(s) == TRUE

\* the test `value instanceof Promise && value.status === "pending"`
StillPending(s) == IsPromise(value[s]) /\ StatusOf(value[s]) = "pending"

\* Promise.resolve().then(() => { if (still pending) signal.notify() })
PendingCheck ==
  /\ Running /\ Instr(Top).op = "check"
  /\ LET f == Top
         s == Instr(f).t
         g == Instr(f).v
     IN /\ IF StillPending(s)
             THEN /\ cs' = Append(WithTop([f EXCEPT !.pc = @ + 1]), PassFrame(s))
                  /\ promises' = [promises EXCEPT ![g].pend = @ + 1]
             ELSE /\ cs' = WithTop([f EXCEPT !.pc = @ + 1])
                  /\ promises' = promises
        /\ UNCHANGED <<value, contexts, stack, isDirty, disposer,
                       currentSubscriptionDisposer, cleanupFn, ended, component,
                       hooks, listeners, currentAbortController, microtasks,
                       activeStoreContainer, cb, call, notes>>
        /\ ctx' = Kept(ctx)

-----------------------------------------------------------------------------
(* derived *)

\* faulty variant: recompute on every read
NeedsComputeAlways(d) == TRUE

\* the test `if (isDirty)`
NeedsCompute(d) == isDirty[d]

\* derived.value read while not dirty: register, return the cached value
GetDerivedClean ==
  /\ Running /\ IsGet(Top) /\ Instr(Top).t \in Deriveds
  /\ ~NeedsCompute(Instr(Top).t)
  /\ LET f == Top
         d == Instr(f).t
     IN /\ cs' = WithTop([f EXCEPT !.pc = @ + 1, !.acc = value[d], !.rd = @ \cup {d}])
        /\ notes' = [notes EXCEPT ![d] = 0]
        /\ UNCHANGED <<value, contexts, stack, isDirty, disposer,
                       currentSubscriptionDisposer, cleanupFn, ended, component, hooks, listeners, asyncVars,
                       activeStoreContainer, cb, call>>
        /\ ctx' = Kept(Read(ctx, d))

\* derived.value read while dirty: register, disposer?.(), new context, cb()
GetDerivedDirty ==
  /\ Running /\ IsGet(Top) /\ Instr(Top).t \in Deriveds
  /\ NeedsCompute(Instr(Top).t)
  /\ LET f == Top
         d == Instr(f).t
         cx1 == Read(ctx, d)
         old == disposer[d]
         c == NewId(d, cx1)
     IN /\ FreeSlots(d, cx1) # {}
        /\ contexts' = unsubscribe(contexts, cx1, old)
        /\ stack' = Append(stack, c)
        /\ cs' = Append(WithTop([f EXCEPT !.pc = @ + 1, !.rd = @ \cup {d}]),
                        BodyFrame(d, c, "read"))
        /\ call' = [call EXCEPT !.runs = Bump(@, d)]
        /\ notes' = [notes EXCEPT ![d] = 0]
        /\ UNCHANGED <<value, isDirty, disposer, currentSubscriptionDisposer,
                       cleanupFn, ended, component, hooks, listeners, asyncVars, activeStoreContainer, cb>>
        /\ ctx' = Kept(Construct(Dead(cx1, old), c))

\* cb() returned: value = ..., disposer = context[Symbol.dispose](), isDirty = false
DerivedReturn ==
  /\ ~Idle /\ Top.k = "body" /\ Top.o \in Deriveds /\ AtEnd(Top)
  /\ LET f == Top
         d == f.o
         caller == Below[Len(Below)]
     IN /\ value' = [value EXCEPT ![d] = f.acc]
        /\ stack' = SubSeq(stack, 1, Len(stack) - 1)
        /\ contexts' = subscribe(contexts, ctx, f.c)
        /\ disposer' = [disposer EXCEPT ![d] = f.c]
        /\ isDirty' = [isDirty EXCEPT ![d] = FALSE]
        /\ cs' = Append(SubSeq(Below, 1, Len(Below) - 1),
                        [caller EXCEPT !.acc = f.acc])
        /\ call' = [call EXCEPT !.fresh = @ \cup Added(f.c)]
        /\ UNCHANGED <<currentSubscriptionDisposer, cleanupFn, ended, component, hooks, listeners, asyncVars,
                       activeStoreContainer, cb, notes>>
        /\ ctx' = Kept(ctx)

-----------------------------------------------------------------------------
(* effect *)

\* updater(): new ObserverContext("effect", ...), then cb()
EffectStart ==
  /\ Running /\ Instr(Top).op = "effect"
  /\ LET f == Top
         e == Instr(f).t
         c == NewId(e, ctx)
     IN /\ FreeSlots(e, ctx) # {}
        /\ stack' = Append(stack, c)
        /\ cs' = Append(WithTop([f EXCEPT !.pc = @ + 1]), BodyFrame(e, c, "create"))
        /\ call' = [call EXCEPT !.runs = Bump(@, e)]
        /\ UNCHANGED <<value, contexts, isDirty, disposer,
                       currentSubscriptionDisposer, cleanupFn, ended, component, hooks, listeners, asyncVars,
                       activeStoreContainer, cb, notes>>
        /\ ctx' = Kept(Construct(ctx, c))

\* the closure effect() passes to cleanup(): the value of
\* currentSubscriptionDisposer when effect() returns
Registered(f) == f.c

\* cb() returned: context[Symbol.dispose]() and the assignment of its result
EffectReturn ==
  /\ ~Idle /\ Top.k = "body" /\ Top.o \in Effects /\ AtEnd(Top)
  /\ LET f == Top
         e == f.o
     IN /\ stack' = SubSeq(stack, 1, Len(stack) - 1)
        /\ contexts' = subscribe(contexts, ctx, f.c)
        /\ currentSubscriptionDisposer' =
             [currentSubscriptionDisposer EXCEPT ![e] = f.c]
        /\ cleanupFn' = IF f.why = "create"
                          THEN [cleanupFn EXCEPT ![e] = Registered(f)]
                          ELSE cleanupFn
        /\ cs' = Below
        /\ call' = [call EXCEPT !.fresh = @ \cup Added(f.c)]
        /\ UNCHANGED <<value, isDirty, disposer, ended, component, hooks, listeners, asyncVars,
                       activeStoreContainer, cb, notes>>
        /\ ctx' = Kept(ctx)

\* the owning scope ends: the registered closure is invoked
Cleanup ==
  /\ Running /\ Instr(Top).op = "cleanup"
  /\ LET f == Top
         e == Instr(f).t
     IN /\ contexts' = unsubscribe(contexts, ctx, cleanupFn[e])
        /\ ended' = ended \cup {e}
        /\ cs' = WithTop([f EXCEPT !.pc = @ + 1])
        /\ UNCHANGED <<value, stack, isDirty, disposer,
                       currentSubscriptionDisposer, cleanupFn, component, hooks, listeners, asyncVars,
                       activeStoreContainer, cb, call, notes>>
        /\ ctx' = Kept(Dead(ctx, cleanupFn[e]))

-----------------------------------------------------------------------------
(* exceptions: the engine has no try, catch or finally *)

\* the host's activation once an exception thrown above it has reached it
Thrown(f, v) == [f EXCEPT !.pc = Len(Program(f)) + 1, !.why = "throw", !.acc = v]

\* a callback throws: the exception leaves cb(), updater(), onUpdate, the
\* forEach of every notify() in progress and every enclosing callback, and
\* reaches the host.  No statement after any of these calls runs: no
\* context is disposed or popped, no closure is assigned, the rest of every
\* snapshot is not visited.  When the job is the then handler of
\* createPromise, the promise then() returned is rejected with the
\* exception, which queues the handler given to catch(); an exception
\* leaving any other job is the host's.
Rethrown(job) ==
  IF job.op = "then" THEN <<Ins("catch", job.t, job.v)>> ELSE <<>>

Throw ==
  /\ Running /\ Instr(Top).op = "throwIf" /\ Top.acc # 0
  /\ cs' = <<Thrown(cs[1], Top.acc)>>
  /\ microtasks' = microtasks \o Rethrown(call.ins)
  /\ UNCHANGED <<value, contexts, stack, isDirty, disposer,
                 currentSubscriptionDisposer, cleanupFn, ended, component, hooks, listeners,
                 currentAbortController, promises,
                 activeStoreContainer, cb, call, notes>>
  /\ ctx' = Kept(ctx)

\* `if (acc) throw ...`: the branch is not taken
NoThrow ==
  /\ Running /\ Instr(Top).op = "throwIf" /\ Top.acc = 0
  /\ cs' = WithTop([Top EXCEPT !.pc = @ + 1])
  /\ UNCHANGED <<codeVars, call, notes>>

\* faulty variant: a pending wrapper is not a suspension point
useNoSuspend(w) ==
  IF IsPromise(w) /\ StatusOf(w) = "rejected"
    THEN [throws |-> TRUE, v |-> promises[InstOf(w)].r]
    ELSE [throws |-> FALSE,
          v |-> IF IsPromise(w) /\ StatusOf(w) = "fulfilled"
                  THEN promises[InstOf(w)].r ELSE Undefined]

\* use(promise): what it throws or returns.  The wrapper of installation g
\* carries promises[g].r as its `value` or `reason`; a plain value has no
\* status and no value field.
use(w) ==
  IF ~IsPromise(w) THEN [throws |-> FALSE, v |-> Undefined]
  ELSE CASE StatusOf(w) = "pending" -> [throws |-> TRUE, v |-> w]
         [] StatusOf(w) = "rejected" -> [throws |-> TRUE, v |-> promises[InstOf(w)].r]
         [] OTHER -> [throws |-> FALSE, v |-> promises[InstOf(w)].r]

\* the host evaluates use(t.value)
Use ==
  /\ Running /\ Instr(Top).op = "use"
  /\ LET f == Top
         t == Instr(f).t
         u == use(value[t])
     IN /\ cs' = IF u.throws
                   THEN <<Thrown(cs[1], u.v)>>
                   ELSE WithTop([f EXCEPT !.pc = @ + 1, !.acc = u.v, !.rd = @ \cup {t}])
        /\ UNCHANGED <<value, contexts, stack, isDirty, disposer,
                       currentSubscriptionDisposer, cleanupFn, ended, component,
                       hooks, listeners, asyncVars, activeStoreContainer, cb, call, notes>>
        /\ ctx' = Kept(Read(ctx, t))

-----------------------------------------------------------------------------
(* SignalTracker.notify(): contexts.forEach((context) => context.notify()) *)

InPass == ~Idle /\ Top.k = "pass" /\ Top.i <= Len(PassList(Top))
Target == PassList(Top)[Top.i]
Advanced == WithTop([Top EXCEPT !.i = @ + 1, !.seen = Append(@, Target)])
Visited(fresh) == fresh \ {<<Top.t, Target>>}

\* an effect's onUpdate: currentSubscriptionDisposer(), then updater()
NotifyEffect ==
  /\ InPass /\ Target[1] \in Effects
  /\ LET e == Target[1]
         old == currentSubscriptionDisposer[e]
         c == NewId(e, ctx)
     IN /\ FreeSlots(e, ctx) # {}
        /\ contexts' = unsubscribe(contexts, ctx, old)
        /\ stack' = Append(stack, c)
        /\ cs' = Append(Advanced, BodyFrame(e, c, "notify"))
        /\ call' = [call EXCEPT !.runs = Bump(@, e), !.upd = Bump(@, e),
                                 !.fresh = Visited(@)]
        /\ UNCHANGED <<value, isDirty, disposer, currentSubscriptionDisposer,
                       cleanupFn, ended, component, hooks, listeners, asyncVars, activeStoreContainer, cb, notes>>
        /\ ctx' = Kept(Construct(Dead(ctx, old), c))

\* faulty variant: the derived's onUpdate notifies nobody
PropagateNothing(d) == [PassFrame(d) EXCEPT !.snap = <<>>]

\* the `signal.notify()` of a derived's onUpdate: a pass over the derived's
\* own dependents
Propagate(d) == PassFrame(d)

\* a derived's onUpdate: isDirty = true, then signal.notify()
NotifyDerived ==
  /\ InPass /\ Target[1] \in Deriveds
  /\ LET d == Target[1]
     IN /\ isDirty' = [isDirty EXCEPT ![d] = TRUE]
        /\ cs' = Append(Advanced, Propagate(d))
        /\ call' = [call EXCEPT !.upd = Bump(@, d), !.fresh = Visited(@)]
        /\ notes' = [notes EXCEPT ![d] = Sat(@, NoteCap)]
        /\ UNCHANGED <<value, contexts, stack, disposer,
                       currentSubscriptionDisposer, cleanupFn, ended, component, hooks, listeners, asyncVars,
                       activeStoreContainer, cb>>
        /\ ctx' = Kept(ctx)

\* a component's onUpdate: the host's setState
NotifyComponent ==
  /\ InPass /\ Target[1] = Comp
  /\ cs' = Advanced
  /\ call' = [call EXCEPT !.upd = Bump(@, Comp), !.fresh = Visited(@)]
  /\ UNCHANGED <<value, contexts, stack, isDirty, disposer,
                 currentSubscriptionDisposer, cleanupFn, ended, component, hooks, listeners, asyncVars,
                 activeStoreContainer, cb, notes>>
  /\ ctx' = Kept(ctx)

\* forEach is over
PassDone ==
  /\ ~Idle /\ Top.k = "pass" /\ ~InPass
  /\ cs' = Below
  /\ UNCHANGED <<value, contexts, stack, isDirty, disposer,
                 currentSubscriptionDisposer, cleanupFn, ended, component, hooks, listeners, asyncVars,
                 activeStoreContainer, cb, call, notes>>
  /\ ctx' = Kept(ctx)

-----------------------------------------------------------------------------
(* observer(): the component context, driven by the host's render *)

Observer ==
  /\ Idle /\ stack = <<>>
  /\ IF component = None THEN TRUE ELSE ctx[component].dead
  /\ LET c == NewId(Comp, ctx)
     IN /\ FreeSlots(Comp, ctx) # {}
        /\ component' = c
        /\ stack' = Append(stack, c)
        /\ UNCHANGED <<value, contexts, isDirty, disposer,
                       currentSubscriptionDisposer, cleanupFn, ended, hooks, listeners, asyncVars,
                       activeStoreContainer, cb, cs, call, notes>>
        /\ ctx' = Kept(Construct(ctx, c))

\* the render scope completes: context[Symbol.dispose]()
ObserverDispose ==
  /\ Idle /\ component # None /\ component \in Range(stack)
  /\ stack' = SubSeq(stack, 1, Len(stack) - 1)
  /\ contexts' = subscribe(contexts, ctx, component)
  /\ UNCHANGED <<value, isDirty, disposer, currentSubscriptionDisposer,
                 cleanupFn, ended, component, hooks, listeners, asyncVars, activeStoreContainer, cb, cs,
                 call, notes>>
  /\ ctx' = Kept(ctx)

\* the closure dispose returned is called by the host
Unsubscribe ==
  /\ Idle /\ component # None /\ component \notin Range(stack)
  /\ contexts' = unsubscribe(contexts, ctx, component)
  /\ UNCHANGED <<value, stack, isDirty, disposer, currentSubscriptionDisposer,
                 cleanupFn, ended, component, hooks, listeners, asyncVars, activeStoreContainer, cb, cs,
                 call, notes>>
  /\ ctx' = Kept(Dead(ctx, component))

\* a store container becomes active, or stops being
StoreContainer ==
  /\ Idle
  /\ activeStoreContainer' = ~activeStoreContainer
  /\ UNCHANGED <<value, contexts, stack, ctx, isDirty, disposer,
                 currentSubscriptionDisposer, cleanupFn, ended, component, hooks, listeners, asyncVars, cb,
                 cs, call, notes>>

-----------------------------------------------------------------------------
(* The older engine, src/src/Signal.ts: signal with onChange listeners and
   producer functions, observe() *)

\* the functions assigned to signal.value: one returns its argument, one
\* returns a different value (or changes the draft)
Producers == <<"same", "next">>

\* produce(value, newValue): the result of the producer, the base itself
\* when the producer changed nothing
produce(v, k) == IF Producers[k] = "same" THEN v ELSE (v + 1) % NVal

\* the test `value === newValue`: newValue is what was assigned, a function
\* is never identical to the stored value
OldSameValue(f) == Instr(f).op = "assign" /\ value[Instr(f).t] = Instr(f).v

\* `typeof newValue === "function" ? produce(value, newValue) : newValue`
OldNewValue(f) ==
  IF Instr(f).op = "produce" THEN produce(value[Instr(f).t], Instr(f).v)
  ELSE Instr(f).v

Plus(n, k) == IF n + k < RunCap THEN n + k ELSE RunCap

\* set value(newValue): the identity test, the assignment, signal.notify()
\* (every dependent's update callback, here the host's) and the listeners
OldSetValue ==
  /\ Running /\ Instr(Top).op \in {"assign", "produce"}
  /\ LET f == Top
         s == Instr(f).t
     IN /\ IF OldSameValue(f)
             THEN value' = value /\ call' = call
             ELSE /\ value' = [value EXCEPT ![s] = OldNewValue(f)]
                  /\ call' = [call EXCEPT
                                !.upd[Comp] = Plus(@, Len(contexts[s])),
                                !.upd[Listener] = Plus(@, listeners[s])]
        /\ cs' = WithTop([f EXCEPT !.pc = @ + 1])
        /\ UNCHANGED <<contexts, stack, ctx, isDirty, disposer,
                       currentSubscriptionDisposer, cleanupFn, ended, component,
                       hooks, listeners, asyncVars, activeStoreContainer, cb, notes>>

\* get value(): registerSignal on the current context, return value
OldGet ==
  /\ Running /\ Instr(Top).op = "oget"
  /\ LET f == Top
         s == Instr(f).t
     IN /\ cs' = WithTop([f EXCEPT !.pc = @ + 1, !.acc = value[s], !.rd = @ \cup {s}])
        /\ UNCHANGED <<value, contexts, stack, isDirty, disposer,
                       currentSubscriptionDisposer, cleanupFn, ended, component,
                       hooks, listeners, asyncVars, activeStoreContainer, cb, call, notes>>
        /\ ctx' = Kept(IF stack # <<>>
                         THEN [ctx EXCEPT ![Cur].getters = @ \cup {s}]
                         ELSE ctx)

\* observe(): new ObserverContext(), pushed by its constructor
OldObserve ==
  /\ Idle /\ stack = <<>>
  /\ IF component = None THEN TRUE ELSE ctx[component].dead
  /\ LET c == NewId(Comp, ctx)
     IN /\ FreeSlots(Comp, ctx) # {}
        /\ component' = c
        /\ stack' = Append(stack, c)
        /\ UNCHANGED <<value, contexts, isDirty, disposer,
                       currentSubscriptionDisposer, cleanupFn, ended, hooks, listeners,
                       asyncVars, activeStoreContainer, cb, cs, call, notes>>
        /\ ctx' = Kept(Construct(ctx, c))

\* context[Symbol.dispose](): pop
OldDispose ==
  /\ Idle /\ component # None /\ component \in Range(stack)
  /\ stack' = SubSeq(stack, 1, Len(stack) - 1)
  /\ UNCHANGED <<value, contexts, isDirty, disposer, currentSubscriptionDisposer,
                 cleanupFn, ended, component, hooks, listeners, asyncVars,
                 activeStoreContainer, cb, cs, call, notes>>
  /\ ctx' = Kept(ctx)

\* the host subscribes the rendered context: context.subscribe(update)
OldSubscribe ==
  /\ Idle /\ component # None /\ component \notin Range(stack)
  /\ ~ctx[component].dead
  /\ contexts' = subscribe(contexts, ctx, component)
  /\ UNCHANGED <<value, stack, isDirty, disposer, currentSubscriptionDisposer,
                 cleanupFn, ended, component, hooks, listeners, asyncVars,
                 activeStoreContainer, cb, cs, call, notes>>
  /\ ctx' = Kept(ctx)

\* the closure subscribe() returned is called
OldUnsubscribe ==
  /\ Idle /\ component # None /\ component \notin Range(stack)
  /\ contexts' = unsubscribe(contexts, ctx, component)
  /\ UNCHANGED <<value, stack, isDirty, disposer, currentSubscriptionDisposer,
                 cleanupFn, ended, component, hooks, listeners, asyncVars,
                 activeStoreContainer, cb, cs, call, notes>>
  /\ ctx' = Kept(Dead(ctx, component))

\* signal.onChange(listener): listeners.add(listener)
OnChange ==
  /\ Idle
  /\ \E s \in Sigs :
       /\ listeners[s] < MaxListen
       /\ listeners' = [listeners EXCEPT ![s] = @ + 1]
  /\ UNCHANGED <<value, contexts, stack, ctx, isDirty, disposer,
                 currentSubscriptionDisposer, cleanupFn, ended, component, hooks,
                 asyncVars, activeStoreContainer, cb, cs, call, notes>>

\* the closure onChange returned: listeners.delete(listener)
OnChangeDispose ==
  /\ Idle
  /\ \E s \in Sigs :
       /\ listeners[s] > 0
       /\ listeners' = [listeners EXCEPT ![s] = @ - 1]
  /\ UNCHANGED <<value, contexts, stack, ctx, isDirty, disposer,
                 currentSubscriptionDisposer, cleanupFn, ended, component, hooks,
                 asyncVars, activeStoreContainer, cb, cs, call, notes>>

-----------------------------------------------------------------------------
Engine ==
  \/ GetSignal \/ GetSkip \/ SetSame \/ SetValue
  \/ GetDerivedClean \/ GetDerivedDirty \/ DerivedReturn
  \/ EffectStart \/ EffectReturn \/ Cleanup
  \/ NotifyEffect \/ NotifyDerived \/ PassDone
  \/ HostReturn

Next ==
  \/ \E ins \in HostCalls : Call(ins)
  \/ Engine

Spec == Init /\ [][Next]_vars

(* The engine under a rendering host: a component observer that reads and
   writes signal A and derived D1 while it renders, a store container that
   can be active, the debug hooks installed or not *)
CbObserver ==
  [o \in Owners |-> IF o = "D1" THEN <<GetI("A")>> ELSE <<>>]

InitObserver ==
  /\ InitCode
  /\ hooks \in BOOLEAN
  /\ cb = CbObserver

ObserverCalls == {GetI("A"), GetI("D1")} \cup {SetI("A", v) : v \in Val}

NextObserver ==
  \/ \E ins \in ObserverCalls : Call(ins)
  \/ GetSignal \/ SetSame \/ SetValue
  \/ GetDerivedClean \/ GetDerivedDirty \/ DerivedReturn
  \/ NotifyDerived \/ NotifyComponent \/ PassDone
  \/ HostReturn
  \/ Observer \/ ObserverDispose \/ Unsubscribe \/ StoreContainer

SpecObserver == InitObserver /\ [][NextObserver]_vars

(* The engine running computations that write the signal they read: two
   effects and the derived D2 each read A and then assign A a different
   value; one effect reads A through the derived D1 as well; the debug hooks
   installed or not.  JavaScript runs a synchronous call chain to
   completion, so the engine's steps are weakly fair. *)
CbLoop ==
  [o \in Owners |->
     CASE o = "D1" -> <<GetI("A")>>
       [] o = "D2" -> <<GetI("A"), IncI("A")>>
       [] o = "E1" -> <<GetI("A"), IncI("A")>>
       [] o = "E2" -> <<GetI("D1"), GetI("A"), IncI("A")>>]

InitLoop ==
  /\ InitCode
  /\ hooks \in BOOLEAN
  /\ cb = CbLoop

LoopCalls ==
  {GetI("D2")} \cup {SetI("A", v) : v \in Val}
    \cup {Ins("effect", e, 0) : e \in Effects}

EngineLoop ==
  \/ GetSignal \/ SetSame \/ SetValue
  \/ GetDerivedClean \/ GetDerivedDirty \/ DerivedReturn
  \/ EffectStart \/ EffectReturn
  \/ NotifyEffect \/ NotifyDerived \/ PassDone
  \/ HostReturn

NextLoop ==
  \/ \E ins \in LoopCalls : Call(ins)
  \/ EngineLoop

SpecLoop == InitLoop /\ [][NextLoop]_vars /\ WF_vars(EngineLoop)

(* The engine with promises written to signal A, which an effect reads: up
   to MaxInst async operations, each pending or already settled when it is
   written, settling in any order. *)
CbAsync ==
  [o \in Owners |-> IF o = "E1" THEN <<GetI("A")>> ELSE <<>>]

InitAsync ==
  /\ InitCode
  /\ hooks = FALSE
  /\ cb = CbAsync

AsyncCalls ==
  {Ins("setp", "A", k) : k \in DOMAIN PromiseStates}
    \cup {Ins("effect", "E1", 0)}

NextAsync ==
  \/ \E ins \in AsyncCalls : Call(ins)
  \/ SetPromise \/ Settle \/ Microtask
  \/ ThenHandler \/ CatchHandler \/ PassThrough \/ PendingCheck
  \/ GetSignal
  \/ EffectStart \/ EffectReturn
  \/ NotifyEffect \/ PassDone
  \/ HostReturn

SpecAsync == InitAsync /\ [][NextAsync]_vars

(* The engine with a callback that throws: effect E1 reads A and throws when
   it is truthy, then reads B; effect E2 and derived D1 read A and B. *)
CbThrow ==
  [o \in Owners |->
     CASE o = "E1" -> <<GetI("A"), ThrowIfI, GetI("B")>>
       [] o = "E2" -> <<GetI("A"), GetI("B")>>
       [] o = "D1" -> <<GetI("A")>>
       [] OTHER -> <<>>]

InitThrow ==
  /\ InitCode
  /\ hooks = FALSE
  /\ cb = CbThrow

ThrowCalls ==
  {SetI(s, v) : s \in Sigs, v \in Val}
    \cup {Ins("effect", e, 0) : e \in Effects}
    \cup {GetI("D1")}

NextThrow ==
  \/ \E ins \in ThrowCalls : Call(ins)
  \/ GetSignal \/ SetSame \/ SetValue
  \/ GetDerivedClean \/ GetDerivedDirty \/ DerivedReturn
  \/ EffectStart \/ EffectReturn
  \/ NotifyEffect \/ NotifyDerived \/ PassDone
  \/ Throw \/ NoThrow
  \/ HostReturn

SpecThrow == InitThrow /\ [][NextThrow]_vars

(* The engine with a derived that writes while it computes: D1 reads A and
   assigns it a different value; the effects E1 and E2 both read A and D1. *)
CbReentrant ==
  [o \in Owners |->
     CASE o = "D1" -> <<GetI("A"), IncI("A")>>
       [] o \in Effects -> <<GetI("A"), GetI("D1")>>
       [] OTHER -> <<>>]

InitReentrant ==
  /\ InitCode
  /\ hooks = FALSE
  /\ cb = CbReentrant

ReentrantCalls ==
  {GetI("D1")} \cup {SetI("A", v) : v \in Val}
    \cup {Ins("effect", e, 0) : e \in Effects}

NextReentrant ==
  \/ \E ins \in ReentrantCalls : Call(ins)
  \/ GetSignal \/ SetSame \/ SetValue
  \/ GetDerivedClean \/ GetDerivedDirty \/ DerivedReturn
  \/ EffectStart \/ EffectReturn
  \/ NotifyEffect \/ NotifyDerived \/ PassDone
  \/ HostReturn

SpecReentrant == InitReentrant /\ [][NextReentrant]_vars

(* The engine with promises and plain values written to signal A, which
   the effect E1 reads. *)
PlainCalls ==
  AsyncCalls \cup {SetI("A", v) : v \in Val}

NextPlain ==
  \/ \E ins \in PlainCalls : Call(ins)
  \/ SetPromise \/ Settle \/ Microtask
  \/ ThenHandler \/ CatchHandler \/ PassThrough \/ PendingCheck
  \/ GetSignal \/ SetSame \/ SetValue
  \/ EffectStart \/ EffectReturn
  \/ NotifyEffect \/ PassDone
  \/ HostReturn

SpecPlain == InitAsync /\ [][NextPlain]_vars

(* The engine with two effects that write for each other: E1 reads A and
   assigns B the value it read plus one; E2 reads B and assigns A the
   value 1; the host writes A. *)
CbLost ==
  [o \in Owners |->
     CASE o = "E1" -> <<GetI("A"), IncI("B")>>
       [] o = "E2" -> <<GetI("B"), SetI("A", 1)>>
       [] OTHER -> <<>>]

InitLost ==
  /\ InitCode
  /\ hooks = FALSE
  /\ cb = CbLost

LostCalls ==
  {SetI("A", v) : v \in Val} \cup {Ins("effect", e, 0) : e \in Effects}

NextLost ==
  \/ \E ins \in LostCalls : Call(ins)
  \/ GetSignal \/ SetSame \/ SetValue
  \/ EffectStart \/ EffectReturn
  \/ NotifyEffect \/ PassDone
  \/ HostReturn

SpecLost == InitLost /\ [][NextLost]_vars

(* The engine with promises written to signal A and a dependent that
   throws: the effect E1 reads A and throws when it is truthy (every wrapper
   is), the effect E2 reads A. *)
CbSettleThrow ==
  [o \in Owners |->
     CASE o = "E1" -> <<GetI("A"), ThrowIfI>>
       [] o = "E2" -> <<GetI("A")>>
       [] OTHER -> <<>>]

InitSettleThrow ==
  /\ InitCode
  /\ hooks = FALSE
  /\ cb = CbSettleThrow

SettleThrowCalls ==
  {Ins("setp", "A", k) : k \in DOMAIN PromiseStates}
    \cup {Ins("effect", e, 0) : e \in Effects}

NextSettleThrow ==
  \/ \E ins \in SettleThrowCalls : Call(ins)
  \/ SetPromise \/ Settle \/ Microtask
  \/ ThenHandler \/ CatchHandler \/ PassThrough \/ PendingCheck
  \/ GetSignal
  \/ EffectStart \/ EffectReturn
  \/ NotifyEffect \/ PassDone
  \/ Throw \/ NoThrow
  \/ HostReturn

SpecSettleThrow == InitSettleThrow /\ [][NextSettleThrow]_vars

(* The host reads signal A through use() while promises are written to it
   and settle. *)
InitUse ==
  /\ InitCode
  /\ hooks = FALSE
  /\ cb = [o \in Owners |-> <<>>]

UseCalls ==
  {Ins("setp", "A", k) : k \in DOMAIN PromiseStates} \cup {Ins("use", "A", 0)}

NextUse ==
  \/ \E ins \in UseCalls : Call(ins)
  \/ SetPromise \/ Settle \/ Microtask
  \/ ThenHandler \/ CatchHandler \/ PassThrough \/ PendingCheck
  \/ PassDone
  \/ Use
  \/ HostReturn

SpecUse == InitUse /\ [][NextUse]_vars

(* The older engine: signals A and B read by an observe() context, with
   onChange listeners, assigned plain values and producer functions. *)
InitOld ==
  /\ InitCode
  /\ hooks = FALSE
  /\ cb = [o \in Owners |-> <<>>]

OldCalls ==
  {Ins("oget", s, 0) : s \in Sigs}
    \cup {Ins("assign", s, v) : s \in Sigs, v \in Val}
    \cup {Ins("produce", s, k) : s \in Sigs, k \in DOMAIN Producers}

NextOld ==
  \/ \E ins \in OldCalls : Call(ins)
  \/ OldGet \/ OldSetValue
  \/ HostReturn
  \/ OldObserve \/ OldDispose \/ OldSubscribe \/ OldUnsubscribe
  \/ OnChange \/ OnChangeDispose

SpecOld == InitOld /\ [][NextOld]_vars

-----------------------------------------------------------------------------
(* Properties *)

\* the host's statement and everything it called have completed
Done == Len(cs) = 1 /\ Top.k = "host" /\ AtEnd(Top)
Ret == Top.acc
\* the completed host statement was a value-changing write to signal s
Wrote(s) ==
  Done /\ call.ins.op = "set" /\ call.ins.t = s /\ call.pre.value[s] # call.ins.v
\* the step pushes the body of o: cb() is invoked
CbStarts(o) ==
  /\ Len(cs') = Len(cs) + 1
  /\ cs'[Len(cs')].k = "body"
  /\ cs'[Len(cs')].o = o
\* the next statement to execute reads d.value
ReadsDerived(d) == Running /\ IsGet(Top) /\ Instr(Top).t = d
\* the next step delivers notify() to a context of o
Notifies(o) == InPass /\ Target[1] = o
IsPrefix(a, b) == Len(a) <= Len(b) /\ a = SubSeq(b, 1, Len(a))
CtxOf(o) == {c \in DOMAIN ctx : c[1] = o}
Subscribed(o) == {t \in Trackers : \E c \in Range(contexts[t]) : c[1] = o}

(* C1 *)
LazyStep ==
  \A d \in Deriveds :
    /\ CbStarts(d) => ReadsDerived(d) /\ isDirty[d]
    /\ ReadsDerived(d) /\ ~isDirty[d] =>
         /\ ~CbStarts(d)
         /\ cs'[Len(cs)].acc = value[d]
         /\ value' = value
         /\ call'.runs = call.runs
    /\ ReadsDerived(d) /\ isDirty[d] =>
         CbStarts(d) /\ call'.runs[d] = Sat(call.runs[d], RunCap)
    /\ Notifies(d) =>
         /\ \A o \in Owners : ~CbStarts(o)
         /\ call'.runs = call.runs
         /\ isDirty'[d]
         /\ cs'[Len(cs')].k = "pass" /\ cs'[Len(cs')].t = d

LazyDone ==
  \A d \in Deriveds :
    Done /\ call.ins = GetI(d) =>
      /\ ~call.pre.isDirty[d] =>
           /\ call.runs = [o \in Owners |-> 0]
           /\ Ret = call.pre.value[d]
      /\ call.pre.isDirty[d] =>
           /\ call.runs[d] = 1
           /\ Ret = value[d]
           /\ ~isDirty[d]

\* C1: the callback of a derived starts only inside a read of its .value made
\* while it is dirty; a read while it is not dirty runs no callback and
\* returns the cached value; a notification delivered to the derived's
\* context runs no callback, it sets isDirty and notifies the derived's own
\* tracker; and a read of a dirty derived runs its callback exactly once,
\* however many notifications preceded it.
LazyDerived == [](LazyDone) /\ [][LazyStep]_vars

\* a read that followed two or more notifications recomputed once, to a new value
LazyDerivedWitness ==
  /\ Done /\ call.ins = GetI("D1")
  /\ call.pre.isDirty["D1"] /\ call.pre.notes["D1"] >= 2
  /\ call.runs["D1"] = 1
  /\ call.pre.value["D1"] \in Val /\ value["D1"] # call.pre.value["D1"]

(* C2 *)
\* C2: E1 and D1 read A only when B is truthy.  With B falsy and the body
\* re-run since (the effect re-runs on the notification, the derived is not
\* dirty, so its last run came after B's change), a value-changing write to A
\* invokes neither update callback: E1 does not run, D1 is not marked dirty.
ConditionalPruning ==
  Wrote("A") /\ call.pre.value["B"] = 0 =>
    /\ call.upd["E1"] = 0 /\ call.runs["E1"] = 0
    /\ ~call.pre.isDirty["D1"] => call.upd["D1"] = 0 /\ ~isDirty["D1"]

\* A was written with B falsy, E1 living in a context of a re-run, D1
\* computed and clean, while the write did notify E2
ConditionalPruningWitness ==
  /\ Wrote("A") /\ call.pre.value["B"] = 0
  /\ currentSubscriptionDisposer["E1"] # None
  /\ currentSubscriptionDisposer["E1"][2] >= 2
  /\ "B" \in Subscribed("E1")
  /\ ~call.pre.isDirty["D1"] /\ "B" \in Subscribed("D1")
  /\ call.upd["E2"] >= 1

(* C3 *)
\* the context of e's latest run before the call, when it is still subscribed
Live(e) ==
  /\ call.pre.currentSubscriptionDisposer[e] # None
  /\ ~call.pre.ctx[call.pre.currentSubscriptionDisposer[e]].dead
LastReads(e) == call.pre.ctx[call.pre.currentSubscriptionDisposer[e]].getters

\* C3: effect(cb) has run cb once when it returns; every notify() delivered
\* to a context of the effect runs cb once more; and one value-changing write
\* to a signal that E1's latest run read (E1 reads signals only) runs E1
\* exactly once, a write to another signal not at all: k writes, k runs.
EffectRunCount ==
  Done =>
    /\ \A e \in Effects :
         /\ call.ins = Ins("effect", e, 0) => call.runs[e] = 1 /\ call.upd[e] = 0
         /\ call.ins # Ins("effect", e, 0) => call.runs[e] = call.upd[e]
    /\ \A s \in Sigs :
         Wrote(s) /\ Live("E1") =>
           call.runs["E1"] = (IF s \in LastReads("E1") THEN 1 ELSE 0)

\* a write to B re-ran E1, which had re-run before, exactly once
EffectRunCountWitness ==
  /\ Wrote("B") /\ Live("E1") /\ "B" \in LastReads("E1")
  /\ call.pre.currentSubscriptionDisposer["E1"][2] >= 2
  /\ call.runs["E1"] = 1 /\ call.upd["E1"] = 1

(* C4 *)
\* C4: once the cleanup hook of an effect has been invoked, no context of the
\* effect is in a dependent set and its body does not run.
TeardownFinal ==
  \A e \in ended :
    /\ \A t \in Trackers : \A c \in Range(contexts[t]) : c[1] # e
    /\ \A i \in DOMAIN cs : ~(cs[i].k = "body" /\ cs[i].o = e)

(* C10 *)
\* C10 (amended): a pass notifies the contexts that were in the dependent set
\* when it started, in insertion order, each once - at every moment the
\* contexts notified so far are a prefix of that set, and the pass ends when
\* all have been notified - so a context added while the pass runs is not
\* visited in it.
SnapshotFanOut ==
  \A i \in DOMAIN cs :
    cs[i].k = "pass" =>
      /\ IsPrefix(cs[i].seen, cs[i].at0)
      /\ Len(cs[i].seen) = cs[i].i - 1
      /\ (i = Len(cs) /\ ~InPass) => cs[i].seen = cs[i].at0

\* a finished pass over two contexts, during which another context subscribed
SnapshotFanOutWitness ==
  /\ ~Idle /\ Top.k = "pass" /\ ~InPass
  /\ Len(Top.at0) >= 2 /\ Top.seen = Top.at0
  /\ \E c \in Range(contexts[Top.t]) : c \notin Range(Top.at0)

\* C10 as stated: a context added to a tracker while its notify() runs is
\* visited by the next notify() of that tracker, so it is still a dependent
\* until then.
AddedVisitedNext ==
  \A p \in call.fresh : p[2] \in Range(contexts[p[1]])

(* C5 *)
\* the next statement to execute writes to s.value the value it already holds
WritesSame(s) ==
  Running /\ IsSet(Top) /\ Instr(Top).t = s /\ NewValue(Top) = value[s]

EqualityStep ==
  \A s \in Sigs :
    WritesSame(s) =>
      /\ value' = value /\ contexts' = contexts /\ ctx' = ctx
      /\ stack' = stack /\ isDirty' = isDirty
      /\ Len(cs') = Len(cs)

\* a completed host write of the value the signal already held called no
\* notify() and ran no body
EqualityDone ==
  Done /\ call.ins.op = "set" /\ call.pre.value[call.ins.t] = call.ins.v =>
    /\ \A o \in DOMAIN call.upd : call.upd[o] = 0
    /\ \A o \in DOMAIN call.runs : call.runs[o] = 0
    /\ value = call.pre.value /\ contexts = call.pre.contexts
    /\ ctx = call.pre.ctx /\ isDirty = call.pre.isDirty

\* C5: a write to signal.value of a value identical to the stored one leaves
\* the stored value, every dependent set and every context's read and write
\* sets unchanged and starts no notification pass, so no context's notify()
\* is called by it: the second of two equal writes in a row notifies nobody.
EqualityShortCircuit == [](EqualityDone) /\ [][EqualityStep]_vars

\* A, which a derived and an effect depend on, was written the value it held
EqualityShortCircuitWitness ==
  /\ Done /\ call.ins = SetI("A", 1) /\ call.pre.value["A"] = 1
  /\ \E c \in Range(contexts["A"]) : c[1] \in Effects
  /\ \E c \in Range(contexts["A"]) : c[1] \in Deriveds

(* C6 *)
\* the next statement to execute reads t.value
ReadsValue(t) == Running /\ IsGet(Top) /\ Instr(Top).t = t
\* the stack's top is a component context while a store container is active
Inert == stack # <<>> /\ Cur[1] = Comp /\ activeStoreContainer
Active == stack # <<>> /\ ~Inert
\* the read and write sets of the contexts that exist before and after the step
SetsUnchanged ==
  \A c \in (DOMAIN ctx) \cap (DOMAIN ctx') :
    ctx'[c].getters = ctx[c].getters /\ ctx'[c].setters = ctx[c].setters
\* the dependent sets but for the contexts of derived d
Others(seq, d) == SelectSeq(seq, LAMBDA c : c[1] # d)

\* C6 as stated: a read of .value registers the tracker in the active
\* context's read set exactly when the stack is non-empty and its top is not
\* a component context under an active store container; otherwise the read
\* leaves every read set and every dependent set unchanged.
ReadIsolationStated ==
  [][\A t \in Trackers :
       ReadsValue(t) =>
         /\ Active => t \in ctx'[Cur].getters
         /\ ~Active => ctx' = ctx /\ contexts' = contexts]_vars

ReadIsolationStep ==
  \A t \in Trackers :
    ReadsValue(t) =>
      /\ Active /\ t \notin ctx[Cur].setters => t \in ctx'[Cur].getters
      /\ Active /\ t \in ctx[Cur].setters => ctx'[Cur] = ctx[Cur]
      /\ ~Active =>
           /\ SetsUnchanged
           /\ t \in Sigs \/ ~isDirty[t] => ctx' = ctx /\ contexts' = contexts
           /\ t \in Deriveds =>
                \A u \in Trackers : Others(contexts'[u], t) = Others(contexts[u], t)

\* C6 (amended): a read registers the tracker in the active context's read
\* set exactly when the stack is non-empty, its top is not a component
\* context under an active store container, and that context has not
\* recorded a write to the tracker.  A read with an empty stack or in the
\* inert component phase changes no existing read or write set; of a signal
\* or a derived that is not dirty it changes no dependent set either, of a
\* dirty derived it changes only where the derived's own contexts are
\* subscribed.  Every dependent of a tracker has it in its read set, so such
\* a read gives a later write nothing to notify.
ReadIsolation ==
  /\ [][ReadIsolationStep]_vars
  /\ [](\A t \in Trackers : \A c \in Range(contexts[t]) : t \in ctx[c].getters)

\* a component in its inert phase read the dirty derived D1: the read
\* registered nothing in the component's context, and the recompute
\* subscribed D1's own context to A
ReadIsolationWitness ==
  /\ Done /\ call.ins.op = "get" /\ call.ins.t = "D1"
  /\ Inert /\ call.pre.stack = stack
  /\ call.pre.isDirty["D1"] /\ call.runs["D1"] = 1
  /\ ctx[Cur].getters = {} /\ ctx[Cur].setters = {}
  /\ \E c \in Range(contexts["A"]) : c[1] = "D1"

(* C7 *)
\* the job that completed was a settlement handler of installation g
Handled(g) == Done /\ call.ins.op \in {"then", "catch"} /\ call.ins.v = g
\* a settled wrapper is stored for signal s
SettledIn(s) == IsPromise(value[s]) /\ StatusOf(value[s]) # "pending"

\* C7: the settlement handler of an async operation that a later async
\* write to the same signal superseded leaves the stored value and the
\* dependent sets as they were and notifies nobody, whichever of the two
\* settles first; the handler of the latest operation stores its fulfilled
\* or rejected wrapper and notifies every dependent of the signal; so a
\* settled wrapper that is stored is always the latest operation's.
AsyncSupersession ==
  /\ \A g \in DOMAIN promises :
       Handled(g) /\ g # currentAbortController[promises[g].t] =>
         /\ value = call.pre.value /\ contexts = call.pre.contexts
         /\ \A o \in DOMAIN call.upd : call.upd[o] = 0
         /\ \A o \in DOMAIN call.runs : call.runs[o] = 0
  /\ \A g \in DOMAIN promises :
       Handled(g) /\ g = currentAbortController[promises[g].t] =>
         /\ value[promises[g].t] =
              PromiseObject(g, IF call.ins.op = "then" THEN 1 ELSE 2)
         /\ StatusOf(value[promises[g].t]) = promises[g].state
         /\ \A c \in Range(call.pre.contexts[promises[g].t]) :
              call.upd[c[1]] >= 1
  /\ \A s \in Sigs :
       SettledIn(s) => InstOf(value[s]) = currentAbortController[s]

\* O1 was written, then O2; O2 settled and its wrapper was stored; then O1
\* fulfilled, and its handler changed nothing and notified nobody although
\* the effect E1 depends on A
AsyncSupersessionWitness ==
  /\ Handled(1) /\ call.ins.op = "then"
  /\ currentAbortController["A"] = 2
  /\ SettledIn("A") /\ InstOf(value["A"]) = 2
  /\ \E c \in Range(contexts["A"]) : c[1] = "E1"
  /\ call.upd["E1"] = 0

(* C8 *)
\* a host statement is executing: a synchronous call chain is in progress
InCall == ~Idle /\ ~Done
\* the deepest the call chain gets: the host's statement, then for every
\* computation its body and the pass or read that called it
ChainBound == 1 + 2 * Cardinality(Owners)

\* C8: with two effects and a derived that each read A and write A a
\* different value in the same run, every synchronous call chain the host
\* starts (an external write and the notification passes under it) runs to
\* completion: no body runs RunCap times or more in it, and no computation
\* is on the chain twice.
NoInfiniteLoop ==
  /\ [](\A o \in DOMAIN call.runs : call.runs[o] < RunCap)
  /\ [](Len(cs) <= ChainBound)
  /\ (InCall ~> Done)

\* one external write to A re-ran both self-writing effects, one of them
\* more than once, and the chain completed
NoInfiniteLoopWitness ==
  /\ Wrote("A")
  /\ call.runs["E1"] >= 1 /\ call.runs["E2"] >= 1
  /\ call.runs["E1"] + call.runs["E2"] >= 3

(* C9 *)
\* C9 as stated: once a computation has read signal S and then changed it,
\* S is out of its context's read set and in its write set; so the context
\* an effect that reads and writes A was last disposed with does not have A
\* among the trackers it subscribed to.
WriteReplacesRead ==
  /\ \A i \in DOMAIN cs :
       cs[i].k = "body" =>
         \A t \in cs[i].rw :
           t \notin ctx[cs[i].c].getters /\ t \in ctx[cs[i].c].setters
  /\ \A e \in Effects :
       currentSubscriptionDisposer[e] # None =>
         "A" \notin ctx[currentSubscriptionDisposer[e]].getters

(* C11 *)
\* C11: when the update callback of one dependent throws during a
\* notification pass, every other dependent in the snapshot still has its
\* update callback invoked in that pass: after a value-changing write, every
\* context that was in the tracker's dependent set has been notified.
FanOutIsolation ==
  \A s \in Sigs :
    Wrote(s) => \A c \in Range(call.pre.contexts[s]) : call.upd[c[1]] >= 1

(* C12 *)
\* every microtask of installation g has run and g was not superseded
Finished(g) ==
  /\ ~promises[g].aborted /\ promises[g].state # "pending"
  /\ \A i \in DOMAIN microtasks : microtasks[i].v # g
  /\ Idle \/ Done
  /\ Done => ~(call.ins.op = "pass" /\ call.ins.v = g)
\* the notify() calls installation g caused
Notifications(g) == promises[g].pend + promises[g].sett

\* C12 as stated: an operation that was already settled, fulfilled or
\* rejected, when it was written causes exactly one notification in total.
SettledOnceStated ==
  \A g \in DOMAIN promises :
    Finished(g) /\ promises[g].first # "pending" => Notifications(g) = 1

DeferredStep ==
  /\ Running /\ Instr(Top).op = "setp" => Len(cs') = Len(cs)
  /\ Running /\ Instr(Top).op = "check" =>
       LET s == Instr(Top).t
           pending == IsPromise(value[s]) /\ StatusOf(value[s]) = "pending"
       IN /\ pending => Len(cs') = Len(cs) + 1 /\ cs'[Len(cs')].k = "pass"
          /\ ~pending => Len(cs') = Len(cs)

DeferredDone ==
  /\ Done /\ call.ins.op = "setp" =>
       /\ \A o \in DOMAIN call.upd : call.upd[o] = 0
       /\ contexts = call.pre.contexts
  /\ \A g \in DOMAIN promises :
       /\ promises[g].pend <= 1 /\ promises[g].sett <= 1
       /\ promises[g].sett = 1 /\ promises[g].first # "fulfilled" =>
            promises[g].pend = 1
       /\ Finished(g) =>
            /\ promises[g].sett = 1
            /\ promises[g].pend = (IF promises[g].first = "fulfilled" THEN 0 ELSE 1)

\* C12: a write of an async operation calls no notify() inside the write;
\* the microtask it queued calls notify() exactly when the stored value is
\* then a pending wrapper; an operation that is not superseded and was
\* already fulfilled when written causes one notification in total, its
\* settlement; one that was already rejected, or still pending, when written
\* causes one pending notification and then one settlement notification.
DeferredPending == [](DeferredDone) /\ [][DeferredStep]_vars

\* an operation already rejected when written has finished: the effect E1,
\* which depends on A, ran for the pending wrapper and again for the rejected one
DeferredPendingWitness ==
  /\ Done /\ call.ins.op = "catch"
  /\ LET g == call.ins.v
     IN /\ Finished(g) /\ promises[g].first = "rejected"
        /\ promises[g].pend = 1 /\ promises[g].sett = 1
        /\ value["A"] = RejectedPromise(g)
        /\ call.upd["E1"] = 1

(* C13 *)
\* With no hooks installed a write assigns, compares and notifies: it
\* registers nothing, so the step that stores a value leaves the read set
\* and the write set of every context as they were.
WriteKeepsSets ==
  Running /\ IsSet(Top) =>
    \A c \in (DOMAIN ctx) \cap (DOMAIN ctx') :
      ctx'[c].getters = ctx[c].getters /\ ctx'[c].setters = ctx[c].setters

\* C13: a run with the debug hooks installed goes through the same stored
\* values, context read sets, dependent sets and update-callback
\* invocations as the run without them: with the hooks installed, too, a
\* write changes no context's read set.
HooksObservational == [][WriteKeepsSets]_vars

(* C14 *)
\* a context of owner o was in the dependent set of tracker t when the call started
WasSubscribed(o, t) == \E c \in Range(call.pre.contexts[t]) : c[1] = o

\* a read of d.value made inside a tracking context puts d in that
\* context's read set in the step that starts the recomputation, or returns
\* the cached value
ChainRegisters ==
  \A d \in Deriveds :
    ReadsDerived(d) /\ Tracked => d \in ctx'[Cur].getters

ChainDone ==
  /\ \A s \in Sigs, d \in Deriveds :
       Wrote(s) /\ WasSubscribed(d, s) =>
         /\ call.upd[d] >= 1
         /\ \A c \in Range(call.pre.contexts[d]) : call.upd[c[1]] >= 1
  /\ Wrote("A") /\ WasSubscribed("D1", "A") /\ WasSubscribed("D2", "D1")
       /\ WasSubscribed("E2", "D2") =>
         /\ call.upd["D1"] >= 1 /\ call.upd["D2"] >= 1
         /\ call.runs["E2"] >= 1
         /\ call.runs["D1"] >= 1 /\ call.runs["D2"] >= 1
         /\ ~isDirty["D1"] /\ ~isDirty["D2"]
         /\ value["D1"] = (IF value["B"] # 0 THEN value["A"] ELSE value["B"])
         /\ value["D2"] = value["D1"]

\* C14: reading a derived inside an active context registers the derived in
\* that context's read set, before any recomputation; a write that changes
\* a signal the derived's latest run read notifies the derived and, in the
\* same synchronous pass, every context subscribed to the derived's
\* tracker; for the chain A -> D1 -> D2 -> E2 one write to A marks D1 and D2
\* dirty and re-runs E2, after which D1 and D2 hold the values recomputed
\* from the new value of A.
DerivedChain == [](ChainDone) /\ [][ChainRegisters]_vars

\* one write to A went through the whole chain: D1 and D2 were notified, E2
\* re-ran and D2 now holds the new value of A
DerivedChainWitness ==
  /\ Wrote("A") /\ WasSubscribed("D1", "A") /\ WasSubscribed("D2", "D1")
  /\ WasSubscribed("E2", "D2")
  /\ call.upd["D1"] >= 1 /\ call.upd["D2"] >= 1 /\ call.runs["E2"] >= 1
  /\ value["D2"] = call.ins.v /\ call.pre.value["D2"] # call.ins.v

(* C15 *)
\* the component context was created and is not yet disposed
Rendering == component # None /\ component \in Range(stack)
\* the component context was disposed and its closure not yet called
Mounted == component # None /\ component \notin Range(stack) /\ ~ctx[component].dead
SubscribedTo(c) == {t \in Trackers : c \in Range(contexts[t])}

ObserverState ==
  /\ Rendering =>
       /\ Idle \/ Done => Cur = component
       /\ SubscribedTo(component) = {}
       /\ Done => call.upd[Comp] = 0
  /\ Mounted => SubscribedTo(component) = ctx[component].getters
  /\ \A s \in Sigs :
       Wrote(s) /\ component \in Range(call.pre.contexts[s]) =>
         /\ call.upd[Comp] >= 1
         /\ component \in Range(contexts[s])
  /\ Done /\ component # None /\ component \notin Range(stack) /\ ctx[component].dead =>
       call.upd[Comp] = 0 /\ SubscribedTo(component) = {}

ObserverStep ==
  /\ Rendering /\ component \notin Range(stack') =>
       \A t \in Trackers :
         component \in Range(contexts'[t]) <=> t \in ctx[component].getters
  /\ Notifies(Comp) =>
       /\ call'.upd[Comp] = Sat(call.upd[Comp], RunCap)
       /\ contexts' = contexts
       /\ \A o \in Owners : ~CbStarts(o)

\* C15 as stated: after disposal the component context is subscribed to
\* exactly the trackers read while it was active, so every tracker the
\* host read while the component context was the active context is in the
\* read set that disposal subscribes.
ObserverReadsStated ==
  /\ ObserverState
  /\ Done /\ call.ins.op = "get" /\ Rendering /\ call.pre.stack = stack =>
       call.ins.t \in ctx[component].getters

\* C15: until it is disposed the context created by observer() is the
\* active context between the host's statements and is in no dependent
\* set, so no write calls the host update callback; disposal subscribes it
\* to exactly the trackers of its read set; from then on each notification
\* calls the host update callback once and leaves it subscribed, until the
\* closure disposal returned is called, after which it is in no dependent
\* set and is not called.
ObserverDeferral == [](ObserverState) /\ [][ObserverStep]_vars

\* the component read A and D1 while rendering and was disposed; a later
\* write to A called the host update callback for A and again for D1, and
\* the component is still subscribed to both
ObserverDeferralWitness ==
  /\ Wrote("A") /\ Mounted
  /\ call.pre.contexts["A"] # <<>> /\ component \in Range(call.pre.contexts["A"])
  /\ call.upd[Comp] = 2
  /\ SubscribedTo(component) = {"A", "D1"}

(* C16 *)
\* the closure of context c is about to be called: by the cleanup hook, by
\* an effect's onUpdate, or by a dirty derived that is read
ClosureCalled(c) ==
  \/ Running /\ Instr(Top).op = "cleanup" /\ c = cleanupFn[Instr(Top).t]
  \/ InPass /\ Target[1] \in Effects /\ c = currentSubscriptionDisposer[Target[1]]
  \/ \E d \in Deriveds : ReadsDerived(d) /\ isDirty[d] /\ c = disposer[d]

UnsubscribeStep ==
  \A c \in DOMAIN ctx :
    ClosureCalled(c) =>
      /\ \A t \in Trackers : c \notin Range(contexts'[t])
      /\ \A t \in Trackers : contexts'[t] = SelectSeq(contexts[t], LAMBDA x : x # c)
      /\ ctx[c].dead => contexts' = contexts

\* C16: calling the closure that disposal returned removes the context from
\* every tracker it was subscribed to and from nothing else; a context
\* whose closure was called is in no dependent set from then on; calling
\* the closure again leaves every dependent set unchanged.
UnsubscribeIdempotent ==
  /\ [][UnsubscribeStep]_vars
  /\ [](\A c \in DOMAIN ctx :
          ctx[c].dead => \A t \in Trackers : c \notin Range(contexts[t]))

\* the closure of E1's first context, which was subscribed to A and B, was
\* called when E1 re-ran and again by the cleanup hook: the second call
\* changed no dependent set, and E1's later context is still subscribed
UnsubscribeIdempotentWitness ==
  /\ Done /\ call.ins = Ins("cleanup", "E1", 0)
  /\ cleanupFn["E1"] \in DOMAIN call.pre.ctx
  /\ call.pre.ctx[cleanupFn["E1"]].dead
  /\ ctx[cleanupFn["E1"]].getters = {"A", "B"}
  /\ contexts = call.pre.contexts
  /\ Subscribed("E1") # {}

(* C17 *)
RegisterStep ==
  /\ \A t \in Trackers :
       ReadsValue(t) /\ Tracked =>
         /\ t \in ctx[Cur].setters => ctx'[Cur] = ctx[Cur]
         /\ t \notin ctx[Cur].setters =>
              /\ ctx'[Cur].getters = ctx[Cur].getters \cup {t}
              /\ ctx'[Cur].setters = ctx[Cur].setters
  /\ Running /\ IsSet(Top) /\ value' # value /\ hooks /\ stack # <<>> =>
       LET t == Instr(Top).t
       IN /\ ctx'[Cur].getters = ctx[Cur].getters \ {t}
          /\ ctx'[Cur].setters = ctx[Cur].setters \cup {t}

\* C17: whatever reads and writes a context has registered, no tracker is
\* both in its read set and in its write set; registerGetter(T) changes
\* nothing when T is in the write set and otherwise adds T to the read set;
\* registerSetter(T) removes T from the read set and adds it to the write set.
ReadWriteDisjoint ==
  /\ [](\A c \in DOMAIN ctx : ctx[c].getters \cap ctx[c].setters = {})
  /\ [][RegisterStep]_vars

\* the component context read D1, read and then wrote A, and read A again:
\* the last read registered nothing
ReadWriteDisjointWitness ==
  /\ Done /\ call.ins = GetI("A") /\ Rendering /\ ~Inert
  /\ ctx[component].setters = {"A"} /\ ctx[component].getters = {"D1"}
  /\ call.pre.ctx[component] = ctx[component]

(* C18 *)
\* C18: assigning a producer function stores its result, and dependents
\* and onChange listeners are notified exactly when the result differs from
\* the previous stored value: a producer whose result is identical to the
\* stored value calls no update callback and no listener.
ProducerEquality ==
  \A s \in Sigs :
    Done /\ call.ins.op = "produce" /\ call.ins.t = s =>
      /\ value[s] = produce(call.pre.value[s], call.ins.v)
      /\ value[s] # call.pre.value[s] =>
           /\ call.upd[Comp] = Len(call.pre.contexts[s])
           /\ call.upd[Listener] = listeners[s]
      /\ value[s] = call.pre.value[s] =>
           call.upd[Comp] = 0 /\ call.upd[Listener] = 0

(* C19 *)
\* the host's statement ended with an exception
Threw == Top.why = "throw"

\* C19: use(w) returns the value of a fulfilled wrapper, throws the reason
\* of a rejected one and throws the wrapper itself when it is pending; it
\* returns normally for no pending and no rejected wrapper.
UseContract ==
  Done /\ call.ins.op = "use" /\ IsPromise(call.pre.value[call.ins.t]) =>
    LET w == call.pre.value[call.ins.t]
        g == InstOf(w)
    IN /\ StatusOf(w) = "fulfilled" => ~Threw /\ Ret = promises[g].r
       /\ StatusOf(w) = "rejected" => Threw /\ Ret = promises[g].r
       /\ StatusOf(w) = "pending" => Threw /\ Ret = w
       /\ ~Threw => StatusOf(w) = "fulfilled"

\* use() was given the pending wrapper stored in A and threw that wrapper
UseContractWitness ==
  /\ Done /\ call.ins.op = "use"
  /\ IsPromise(value["A"]) /\ StatusOf(value["A"]) = "pending"
  /\ Threw /\ Ret = value["A"]

(* C20 *)
\* the context of the most recent completed run of o
LatestCtx(o) == IF o \in Deriveds THEN disposer[o] ELSE currentSubscriptionDisposer[o]

StackMatched == Done => stack = call.pre.stack

(* C22 *)
\* C22: when a plain value was written to a signal after an async
\* operation and before the operation settled, and is still the stored
\* value when the operation's settlement handler runs, the handler leaves
\* the stored value as it is and notifies nobody.
PlainWriteWins ==
  \A g \in DOMAIN promises :
    Handled(g) /\ promises[g].over /\ ~IsPromise(call.pre.value[promises[g].t]) =>
      /\ value = call.pre.value
      /\ \A o \in DOMAIN call.upd : call.upd[o] = 0

(* C23 *)
\* C23 as stated: the update callback of a context whose unsubscribe
\* closure was called is never invoked again: the context a pass is about
\* to notify is never an unsubscribed one.
UnsubscribedNeverNotified == InPass => ~ctx[Target].dead

\* the step enters notify(): a pass starts
PassStarts ==
  Len(cs') = Len(cs) + 1 /\ cs'[Len(cs')].k = "pass" /\ cs'[Len(cs')].i = 1

StaleStep ==
  /\ PassStarts =>
       \A c \in Range(cs'[Len(cs')].snap) : c \in DOMAIN ctx /\ ~ctx[c].dead
  /\ InPass => Target \in Range(Top.at0)

\* C23 (amended): a pass that starts after the unsubscribe closure of a
\* context was called does not contain the context, so it does not invoke
\* its update callback; a pass invokes the update callbacks of the contexts
\* that were subscribed when it started and of no other, so the only
\* notification an unsubscribed context can still get is from a pass that
\* was already in progress when it was unsubscribed.
StaleOnlyInProgress == [][StaleStep]_vars

\* an effect's update callback was invoked through a snapshot entry that the
\* effect's own re-run, earlier in the same write, had unsubscribed
StaleOnlyInProgressWitness ==
  /\ Len(cs) >= 2 /\ Top.k = "body" /\ Top.why = "notify" /\ Top.pc = 1
  /\ LET p == cs[Len(cs) - 1]
     IN /\ p.k = "pass" /\ p.seen # <<>>
        /\ LET x == p.seen[Len(p.seen)]
           IN /\ x[1] = Top.o
              /\ x \in DOMAIN call.pre.ctx /\ ~call.pre.ctx[x].dead
              /\ x \in Range(p.at0)
              /\ x # currentSubscriptionDisposer[Top.o]

(* C24 *)
\* C24: at quiescence the latest run of every effect read the current value
\* of each dependency it does not write.  E1 reads A and stores what it
\* read, plus one, in B, which nothing else writes: whenever E1 exists and
\* nothing is executing, B holds the current value of A plus one.
NoLostUpdate ==
  Idle /\ currentSubscriptionDisposer["E1"] # None =>
    value["B"] = (value["A"] + 1) % NVal

(* C25 *)
\* C25: once the latest async operation of a signal has fulfilled and its
\* then handler has stored the fulfilled wrapper, the stored value stays
\* that wrapper until the next write and the settlement has notified
\* exactly once, also when a dependent's update callback threw during that
\* notification.
FulfilmentFinal ==
  \A g \in DOMAIN promises :
    /\ g = currentAbortController[promises[g].t]
    /\ promises[g].state = "fulfilled" /\ promises[g].sett >= 1
    => /\ value[promises[g].t] = FulfilledPromise(g)
       /\ promises[g].sett = 1

====
